---------------------------- MODULE Spec2Model ----------------------------
(***************************************************************************)
(* Model of the place-details proxy handlers of EZ-Game-search.            *)
(*                                                                         *)
(* Three batching handlers are modelled, selected by the variable          *)
(* `handler`:                                                              *)
(*   "canonical"  src/unnamed/part_000          (filter + 500 on no data)  *)
(*   "api"        src/api/get-place-details.js  (no filter, no 500)        *)
(*   "server"     src/server.js                 (no filter, no 500)        *)
(*                                                                         *)
(* A JavaScript string is a sequence of one-character strings, so that     *)
(* split, trim and parseInt can be computed as the engine computes them.   *)
(* The request URL is not built: an upstream call carries the batch whose  *)
(* identifiers the URL would encode as repeated placeIds parameters.       *)
(***************************************************************************)
EXTENDS Integers, Sequences, FiniteSets, TLC

VARIABLES
    handler,        \* which handler file serves the request
    method,         \* req.method
    query,          \* req.query.placeIds: [kind, str, arr]
    pc,             \* "start" | "loop" | "await" | "body" | "done"
    validPlaceIds,  \* the sequence the batch loop iterates
    i,              \* the loop offset
    allResults,     \* accumulated records
    errors,         \* accumulated failures
    robloxResponse, \* the status line of the response whose body is awaited
    inflight,       \* upstream calls issued and not yet completed
    calls,          \* history: every upstream call issued, in order
    outcomes,       \* history: the outcome of every completed call, in order
    responses       \* history: every response sent to the client

vars == <<handler, method, query, pc, validPlaceIds, i, allResults, errors,
          robloxResponse, inflight, calls, outcomes, responses>>

-----------------------------------------------------------------------------
(* Program constants *)

BATCH_SIZE == 50

(* Bounds of the model *)

MaxStrLen == 3
MaxFullBatches == 2

-----------------------------------------------------------------------------
(* JavaScript string primitives *)

WhiteSpace == {" ", "\t", "\n"}

DecDigits == {"0", "1", "2", "3", "4", "5", "6", "7", "8", "9"}

HexDigits == DecDigits \cup {"a", "b", "c", "d", "e", "f", "A", "B", "C", "D", "E", "F"}

RECURSIVE TrimStart(_)
TrimStart(s) ==
    IF s # <<>> /\ Head(s) \in WhiteSpace THEN TrimStart(Tail(s)) ELSE s

RECURSIVE TrimEnd(_)
TrimEnd(s) ==
    IF s # <<>> /\ s[Len(s)] \in WhiteSpace
    THEN TrimEnd(SubSeq(s, 1, Len(s) - 1))
    ELSE s

\* String.prototype.trim
Trim(s) == TrimEnd(TrimStart(s))

RECURSIVE SplitAcc(_, _, _, _)
SplitAcc(s, k, cur, acc) ==
    IF k > Len(s) THEN Append(acc, cur)
    ELSE IF s[k] = "," THEN SplitAcc(s, k + 1, <<>>, Append(acc, cur))
    ELSE SplitAcc(s, k + 1, Append(cur, s[k]), acc)

\* String.prototype.split(',')
Split(s) == SplitAcc(s, 1, <<>>, <<>>)

\* placeIds.split(',').map(id => id.trim())
SplitTrim(s) == LET p == Split(s) IN [k \in 1..Len(p) |-> Trim(p[k])]

\* parseInt(s) with no radix: leading white space is skipped, one sign is
\* accepted, a 0x/0X prefix selects radix 16, and the longest prefix of
\* digits of the radix is converted; the result is NaN iff that prefix is
\* empty.  Only NaN-ness is needed by the handler.
ParseIntIsNaN(s) ==
    LET t == TrimStart(s)
        u == IF t # <<>> /\ Head(t) \in {"+", "-"} THEN Tail(t) ELSE t
        hex == Len(u) >= 2 /\ u[1] = "0" /\ u[2] \in {"x", "X"}
        z == IF hex THEN Tail(Tail(u)) ELSE u
        digits == IF hex THEN HexDigits ELSE DecDigits
    IN  z = <<>> \/ Head(z) \notin digits

\* id => !isNaN(parseInt(id))
KeepsId(id) == ~ParseIntIsNaN(id)

\* Array.prototype.filter with the predicate above
FilterIds(s) == SelectSeq(s, KeepsId)

Min(a, b) == IF a < b THEN a ELSE b

\* Mutant: the end of the slice is one short.
MutSlice(s, from, to) == SubSeq(s, from + 1, Min(to - 1, Len(s)))

\* Array.prototype.slice(from, to) for 0 <= from <= to (0-based, end exclusive)
Slice(s, from, to) == SubSeq(s, from + 1, Min(to, Len(s)))


-----------------------------------------------------------------------------
(* Requests *)

Handlers == {"canonical", "api", "server"}

Alphabet == {"0", "1", "a", "x", "-", ".", " ", ","}

Strings == UNION {[1..k -> Alphabet] : k \in 0..MaxStrLen}

DigitChar(d) == <<"0", "1", "2", "3", "4", "5", "6", "7", "8", "9">>[d + 1]

RECURSIVE Digits(_)
Digits(n) == IF n < 10 THEN <<DigitChar(n)>>
             ELSE Append(Digits(n \div 10), DigitChar(n % 10))

Lens == {0, 1} \cup {k * BATCH_SIZE + d : k \in 1..MaxFullBatches, d \in {-1, 0, 1, 25}}

Patterns == {"numeric", "mixed", "junk"}

\* A repeated-parameter list of n strings: the identifiers 1..n, with every
\* third one ("mixed") or every one ("junk") replaced by a non-number.
ArrayOf(n, pat) ==
    [j \in 1..n |-> IF pat = "junk" \/ (pat = "mixed" /\ j % 3 = 0)
                    THEN <<"a", "b", "c">>
                    ELSE Digits(j)]

Absent == [kind |-> "absent", str |-> <<>>, arr |-> <<>>]

ObjectQuery == [kind |-> "object", str |-> <<>>, arr |-> <<>>]

StringQuery(s) == [kind |-> "string", str |-> s, arr |-> <<>>]

ArrayQuery(a) == [kind |-> "array", str |-> <<>>, arr |-> a]

Queries ==
    {Absent, ObjectQuery}
        \cup {StringQuery(s) : s \in Strings}
        \cup {ArrayQuery(ArrayOf(n, pat)) : n \in Lens, pat \in Patterns}

\* The methods that reach the handler: the serverless handlers receive every
\* method, the Express route is registered with app.get.
MethodsOf(h) == IF h = "server" THEN {"GET"} ELSE {"GET", "OPTIONS", "POST"}

-----------------------------------------------------------------------------
(* Responses *)

NoBody ==
    [keys |-> {}, bare |-> FALSE, data |-> <<>>, errors |-> <<>>,
     message |-> "", error |-> ""]

ErrorBody(msg) == [NoBody EXCEPT !.keys = {"error"}, !.error = msg]

BareArray(data) == [NoBody EXCEPT !.bare = TRUE, !.data = data]

Response(status, body) == [status |-> status, body |-> body]

-----------------------------------------------------------------------------
(* Validation *)

\* !placeIds: undefined and the empty string are falsy, arrays and objects
\* are truthy.
Falsy(q) == q.kind = "absent" \/ (q.kind = "string" /\ q.str = <<>>)

InvalidFormatMessage(h) ==
    IF h = "server"
    THEN "Invalid placeIds format. Must be a comma-separated string or an array."
    ELSE "Invalid placeIds format."

\* Only the canonical handler filters the identifiers.
Filters(h) == h = "canonical"

Rejected(status, msg) == [ok |-> FALSE, ids |-> <<>>, status |-> status, error |-> msg]

Accepted(ids) == [ok |-> TRUE, ids |-> ids, status |-> 0, error |-> ""]

\* The validation of req.query.placeIds, up to the batch loop.
Normalize(h, q) ==
    IF Falsy(q) THEN Rejected(400, "Missing placeIds parameter.")
    ELSE IF q.kind \notin {"string", "array"} THEN Rejected(400, InvalidFormatMessage(h))
    ELSE LET placeIds == IF q.kind = "string" THEN SplitTrim(q.str) ELSE q.arr
             valid == IF Filters(h) THEN FilterIds(placeIds) ELSE placeIds
         IN  IF Filters(h) /\ Len(valid) = 0
             THEN Rejected(400, "No valid place IDs provided.")
             ELSE Accepted(valid)

\* The method checks in front of the validation.
MethodResponse(h, m) ==
    IF h \in {"canonical", "api"} /\ m = "OPTIONS" THEN <<Response(200, NoBody)>>
    ELSE IF h = "canonical" /\ m # "GET"
    THEN <<Response(405, ErrorBody("Method not allowed"))>>
    ELSE <<>>

-----------------------------------------------------------------------------
(* Upstream *)

Rec(off, n) == [batch |-> off, n |-> n]

NoRec == Rec(-1, 0)

\* What one upstream call can do.  fetch() rejects; or it resolves with a
\* status, and then reading the body (text() or json()) yields it or rejects.
Outcome(fetchThrows, status, statusText, bodyThrows, text, isArray, arr, obj, message) ==
    [fetchThrows |-> fetchThrows, status |-> status, statusText |-> statusText,
     bodyThrows |-> bodyThrows, text |-> text, isArray |-> isArray, arr |-> arr,
     obj |-> obj, message |-> message]

UpstreamOutcomes(off) ==
    { Outcome(TRUE, 0, "", FALSE, "", FALSE, <<>>, NoRec, "network error"),
      Outcome(FALSE, 404, "Not Found", FALSE, "not found", FALSE, <<>>, NoRec, ""),
      Outcome(FALSE, 429, "Too Many Requests", TRUE, "", FALSE, <<>>, NoRec, "aborted"),
      Outcome(FALSE, 200, "OK", TRUE, "", FALSE, <<>>, NoRec, "invalid json"),
      Outcome(FALSE, 200, "OK", FALSE, "", FALSE, <<>>, Rec(off, 1), ""),
      Outcome(FALSE, 200, "OK", FALSE, "", TRUE, <<>>, NoRec, ""),
      Outcome(FALSE, 200, "OK", FALSE, "", TRUE, <<Rec(off, 1), Rec(off, 2)>>, NoRec, "") }

\* Response.ok of node-fetch
Ok(status) == status >= 200 /\ status < 300

\* The resolved value of fetch(): the status line, the body not yet read.
ResponseHead(o) == [status |-> o.status, statusText |-> o.statusText]

NoResponse == [status |-> 0, statusText |-> ""]

\* The outcome is caught by the try/catch of the loop body.
Throws(o) == o.fetchThrows \/ o.bodyThrows

-----------------------------------------------------------------------------
(* The loop body after the awaited call *)

ErrorEntry(batchIndex, status, statusText, details) ==
    [batchIndex |-> batchIndex, status |-> status, statusText |-> statusText,
     details |-> details]

\* errors.push({batchIndex: i, status: 500, ...}) of the catch block
CaughtEntry(off, o) == ErrorEntry(off, 500, "Internal Server Error", o.message)

\* Mutant: batchIndex is the ordinal of the batch, not its offset.
MutUpstreamEntry(off, o) ==
    [batchIndex |-> off \div BATCH_SIZE, status |-> o.status,
     statusText |-> o.statusText, details |-> o.text]

\* errors.push({batchIndex: i, status: robloxResponse.status, ...})
UpstreamEntry(off, o) == ErrorEntry(off, o.status, o.statusText, o.text)

\* Mutant: an array body is pushed as one element (its first record).
MutAccumulate(results, o) ==
    IF o.isArray
    THEN (IF o.arr = <<>> THEN results ELSE Append(results, o.arr[1]))
    ELSE Append(results, o.obj)

\* Array.isArray(data) ? allResults.concat(data) : allResults.push(data)
\* (concat(data) of the other handlers appends a non-array the same way)
Accumulate(results, o) ==
    IF o.isArray THEN results \o o.arr ELSE Append(results, o.obj)

\* errors after the outcome o of the call for the batch at offset off
ErrorsAfter(errs, off, o) ==
    IF Throws(o) THEN Append(errs, CaughtEntry(off, o))
    ELSE IF ~Ok(o.status) THEN Append(errs, UpstreamEntry(off, o))
    ELSE errs

\* allResults after the outcome o
ResultsAfter(results, o) ==
    IF ~Throws(o) /\ Ok(o.status) THEN Accumulate(results, o) ELSE results

\* i += BATCH_SIZE, on every path through the loop body
NextOffset(off, o) == off + BATCH_SIZE

-----------------------------------------------------------------------------
(* The final response *)

PartialMessage(h) ==
    IF h = "server"
    THEN "Some batches failed to fetch data from Roblox API."
    ELSE "Some batches failed."

PartialBody(h, results, errs) ==
    [NoBody EXCEPT !.keys = {"data", "errors", "message"}, !.data = results,
                   !.errors = errs, !.message = PartialMessage(h)]

AllFailedBody(errs) ==
    [NoBody EXCEPT !.keys = {"error", "errors"}, !.error = "All requests failed",
                   !.errors = errs]

DataBody(results) == [NoBody EXCEPT !.keys = {"data"}, !.data = results]

\* Mutant: the all-failed branch is missing.
MutFinalResponse(h, results, errs) ==
    IF Len(errs) > 0 THEN Response(200, PartialBody(h, results, errs))
    ELSE IF h = "canonical" THEN Response(200, DataBody(results))
    ELSE Response(200, BareArray(results))

FinalResponse(h, results, errs) ==
    IF h = "canonical"
    THEN IF Len(errs) > 0 /\ Len(results) = 0 THEN Response(500, AllFailedBody(errs))
         ELSE IF Len(errs) > 0 THEN Response(200, PartialBody(h, results, errs))
         ELSE Response(200, DataBody(results))
    ELSE IF Len(errs) > 0 THEN Response(200, PartialBody(h, results, errs))
         ELSE Response(200, BareArray(results))

-----------------------------------------------------------------------------
(* The handler *)

Call(off, batch) == [offset |-> off, batch |-> batch]

Init ==
    /\ handler \in Handlers
    /\ \/ method = "GET" /\ query \in Queries
       \/ /\ method \in MethodsOf(handler)
          /\ query \in {Absent, StringQuery(<<"1">>), ArrayQuery(ArrayOf(1, "numeric"))}
    /\ pc = "start"
    /\ validPlaceIds = <<>>
    /\ i = 0
    /\ allResults = <<>>
    /\ errors = <<>>
    /\ robloxResponse = NoResponse
    /\ inflight = <<>>
    /\ calls = <<>>
    /\ outcomes = <<>>
    /\ responses = <<>>

\* From the entry of the handler to the batch loop: the method checks and the
\* validation, each of which may answer and return.
Receive ==
    /\ pc = "start"
    /\ LET early == MethodResponse(handler, method)
           norm == Normalize(handler, query)
       IN  IF early # <<>>
           THEN /\ responses' = responses \o early
                /\ pc' = "done"
                /\ UNCHANGED validPlaceIds
           ELSE IF ~norm.ok
           THEN /\ responses' = Append(responses, Response(norm.status, ErrorBody(norm.error)))
                /\ pc' = "done"
                /\ UNCHANGED validPlaceIds
           ELSE /\ validPlaceIds' = norm.ids
                /\ pc' = "loop"
                /\ UNCHANGED responses
    /\ i' = 0
    /\ allResults' = <<>>
    /\ errors' = <<>>
    /\ UNCHANGED <<handler, method, query, robloxResponse, inflight, calls, outcomes>>

\* Mutant: fetch() is called and not awaited.
MutDispatch ==
    /\ pc = "loop"
    /\ i < Len(validPlaceIds)
    /\ LET call == Call(i, SubSeq(validPlaceIds, i + 1, Min(i + BATCH_SIZE, Len(validPlaceIds))))
       IN  /\ inflight' = Append(inflight, call)
           /\ calls' = Append(calls, call)
    /\ i' = i + BATCH_SIZE
    /\ pc' = "loop"
    /\ UNCHANGED <<handler, method, query, validPlaceIds, allResults, errors,
                   robloxResponse, outcomes, responses>>

\* The loop test holds: the batch is sliced and fetch() is called and awaited.
Dispatch ==
    /\ pc = "loop"
    /\ i < Len(validPlaceIds)
    /\ LET call == Call(i, Slice(validPlaceIds, i, i + BATCH_SIZE))
       IN  /\ inflight' = Append(inflight, call)
           /\ calls' = Append(calls, call)
    /\ pc' = "await"
    /\ UNCHANGED <<handler, method, query, validPlaceIds, i, allResults, errors,
                   robloxResponse, outcomes, responses>>

\* Mutant: a failed batch leaves the loop.
MutRecord(o) ==
    /\ errors' = ErrorsAfter(errors, i, o)
    /\ allResults' = ResultsAfter(allResults, o)
    /\ i' = IF Throws(o) \/ ~Ok(o.status) THEN Len(validPlaceIds) ELSE i + BATCH_SIZE
    /\ outcomes' = Append(outcomes, o)
    /\ inflight' = Tail(inflight)
    /\ robloxResponse' = NoResponse
    /\ pc' = "loop"

\* The rest of the loop body once the call has the outcome o: the result is
\* recorded in allResults or errors and the loop steps to the next offset.
Record(o) ==
    /\ errors' = ErrorsAfter(errors, i, o)
    /\ allResults' = ResultsAfter(allResults, o)
    /\ i' = NextOffset(i, o)
    /\ outcomes' = Append(outcomes, o)
    /\ inflight' = Tail(inflight)
    /\ robloxResponse' = NoResponse
    /\ pc' = "loop"

\* The awaited fetch() settles: it rejects, and the catch block runs, or it
\* resolves with the status line and the body is awaited.
FetchSettles ==
    /\ pc = "await"
    /\ inflight # <<>>
    /\ \E o \in UpstreamOutcomes(Head(inflight).offset) :
          IF o.fetchThrows
          THEN Record(o)
          ELSE /\ robloxResponse' = ResponseHead(o)
               /\ pc' = "body"
               /\ UNCHANGED <<i, allResults, errors, inflight, outcomes>>
    /\ UNCHANGED <<handler, method, query, validPlaceIds, calls, responses>>

\* The awaited text() or json() of the response settles.
BodySettles ==
    /\ pc = "body"
    /\ \E o \in UpstreamOutcomes(Head(inflight).offset) :
          /\ ~o.fetchThrows
          /\ ResponseHead(o) = robloxResponse
          /\ Record(o)
    /\ UNCHANGED <<handler, method, query, validPlaceIds, calls, responses>>

\* The loop test fails: the response is chosen and sent.
Respond ==
    /\ pc = "loop"
    /\ ~(i < Len(validPlaceIds))
    /\ responses' = Append(responses, FinalResponse(handler, allResults, errors))
    /\ pc' = "done"
    /\ UNCHANGED <<handler, method, query, validPlaceIds, i, allResults, errors,
                   robloxResponse, inflight, calls, outcomes>>

Next == Receive \/ Dispatch \/ FetchSettles \/ BodySettles \/ Respond

Spec == Init /\ [][Next]_vars

\* The event loop runs every continuation that is ready, and every upstream
\* call settles.
FairSpec == Spec /\ WF_vars(Next)

-----------------------------------------------------------------------------
(* Vocabulary of the properties *)

Canonical == handler = "canonical"

Done == pc = "done"

\* The request passed the method checks and the validation.
Validated == MethodResponse(handler, method) = <<>> /\ Normalize(handler, query).ok

\* The validated identifier sequence.
IdentifierSet == Normalize(handler, query).ids

\* ceil(n / BATCH_SIZE)
NumBatches(n) == (n + BATCH_SIZE - 1) \div BATCH_SIZE

\* The upstream call produced a Failure.
Failure(o) == o.fetchThrows \/ o.bodyThrows \/ ~(o.status \in 200..299)

\* The items of a Success.
Items(o) == IF o.isArray THEN o.arr ELSE <<o.obj>>

RECURSIVE ExpectedData(_, _)
ExpectedData(outs, k) ==
    IF k = 0 THEN <<>>
    ELSE IF Failure(outs[k]) THEN ExpectedData(outs, k - 1)
    ELSE ExpectedData(outs, k - 1) \o Items(outs[k])

\* The entry a Failure of the k-th batch must leave in errors.
ExpectedEntry(o, k) ==
    IF o.fetchThrows \/ o.bodyThrows
    THEN [batchIndex |-> (k - 1) * BATCH_SIZE, status |-> 500,
          statusText |-> "Internal Server Error", details |-> o.message]
    ELSE [batchIndex |-> (k - 1) * BATCH_SIZE, status |-> o.status,
          statusText |-> o.statusText, details |-> o.text]

RECURSIVE ExpectedErrors(_, _)
ExpectedErrors(outs, k) ==
    IF k = 0 THEN <<>>
    ELSE IF Failure(outs[k])
    THEN Append(ExpectedErrors(outs, k - 1), ExpectedEntry(outs[k], k))
    ELSE ExpectedErrors(outs, k - 1)

RECURSIVE Concat(_, _)
Concat(cs, k) == IF k = 0 THEN <<>> ELSE Concat(cs, k - 1) \o cs[k].batch

\* The whole string is an optionally signed run of decimal digits.
IsPureInteger(s) ==
    LET u == IF s # <<>> /\ Head(s) \in {"+", "-"} THEN Tail(s) ELSE s
    IN  u # <<>> /\ \A k \in 1..Len(u) : u[k] \in DecDigits

\* The elements of the input before the filter.
Pieces == IF query.kind = "string" THEN SplitTrim(query.str) ELSE query.arr

-----------------------------------------------------------------------------
(* C1: in the canonical handler, after validation, the only response is the
   one of the decision table: 200 {data} when errors is empty, 200 {data,
   errors, message: "Some batches failed."} when errors and data are both
   non-empty, 500 {error: "All requests failed", errors} when errors is
   non-empty and data is empty; nothing is sent before the loop ends. *)
C1_DecisionTable ==
    (Canonical /\ Validated /\ pc # "start") =>
        IF ~Done THEN responses = <<>>
        ELSE /\ Len(responses) = 1
             /\ LET r == responses[1]
                IN  /\ (errors = <<>>) =>
                          /\ r.status = 200
                          /\ r.body.keys = {"data"} /\ ~r.body.bare
                          /\ r.body.data = allResults
                    /\ (errors # <<>> /\ allResults # <<>>) =>
                          /\ r.status = 200
                          /\ r.body.keys = {"data", "errors", "message"}
                          /\ r.body.data = allResults
                          /\ r.body.errors = errors
                          /\ r.body.message = "Some batches failed."
                    /\ (errors # <<>> /\ allResults = <<>>) =>
                          /\ r.status = 500
                          /\ r.body.keys = {"error", "errors"}
                          /\ r.body.error = "All requests failed"
                          /\ r.body.errors = errors

C1_Witness ==
    /\ Canonical /\ Validated /\ Done
    /\ errors # <<>> /\ allResults = <<>>
    /\ Len(calls) >= 2
    /\ responses[1].status = 500

-----------------------------------------------------------------------------
(* C2: for a validated request the response is 500 exactly when every batch
   produced a Failure; as soon as one batch produced a Success, even one
   with no items, the response is 200 and carries data, with the failures
   in errors. *)
C2_FailedOnlyWhenAllFail ==
    (Canonical /\ Validated /\ Done) =>
        LET r == responses[1]
            allFailed == \A k \in 1..Len(outcomes) : Failure(outcomes[k])
            someFailed == \E k \in 1..Len(outcomes) : Failure(outcomes[k])
        IN  /\ (r.status = 500) <=> allFailed
            /\ ~allFailed =>
                  /\ r.status = 200
                  /\ "data" \in r.body.keys
                  /\ someFailed =>
                        /\ "errors" \in r.body.keys
                        /\ Len(r.body.errors) =
                              Cardinality({k \in 1..Len(outcomes) : Failure(outcomes[k])})

-----------------------------------------------------------------------------
(* C3: for N >= 1 validated identifiers the loop produces ceil(N / B)
   batches, batch k at offset k * B, each of length B except the last, of
   length N mod B (B when B divides N), and their concatenation in order is
   the identifier sequence. *)
C3_Partition ==
    (Canonical /\ Validated /\ Done) =>
        LET n == Len(IdentifierSet)
            nb == NumBatches(n)
        IN  /\ n >= 1
            /\ Len(calls) = nb
            /\ \A k \in 1..Len(calls) :
                  /\ calls[k].offset = (k - 1) * BATCH_SIZE
                  /\ Len(calls[k].batch) =
                        IF k < nb \/ n % BATCH_SIZE = 0 THEN BATCH_SIZE
                        ELSE n % BATCH_SIZE
            /\ Concat(calls, Len(calls)) = IdentifierSet

C3_Witness ==
    /\ Canonical /\ Validated /\ Done
    /\ Len(IdentifierSet) = BATCH_SIZE + BATCH_SIZE \div 2
    /\ Len(calls) = 2
    /\ Len(calls[2].batch) = BATCH_SIZE \div 2

-----------------------------------------------------------------------------
(* C4: whatever the outcomes, every batch of the partition is dispatched
   exactly once: dispatch goes on after a Failure, and no batch is
   dispatched a second time.  Stated of the canonical handler and of
   server.js. *)
C4_EveryBatchOnce ==
    (handler \in {"canonical", "server"} /\ Validated) =>
        LET ids == IdentifierSet
            nb == NumBatches(Len(ids))
        IN  /\ \A j, k \in 1..Len(calls) : calls[j].offset = calls[k].offset => j = k
            /\ Len(outcomes) <= Len(calls)
            /\ \A k \in 1..Len(calls) :
                  calls[k] = Call((k - 1) * BATCH_SIZE,
                                  SubSeq(ids, (k - 1) * BATCH_SIZE + 1,
                                         Min(k * BATCH_SIZE, Len(ids))))
            /\ Done => Len(calls) = nb /\ Len(outcomes) = nb

C4_Witness ==
    /\ handler = "server" /\ Validated /\ Done
    /\ Len(calls) = 3
    /\ outcomes[1].fetchThrows
    /\ ~outcomes[2].fetchThrows /\ outcomes[2].status = 404
    /\ ~Failure(outcomes[3])

-----------------------------------------------------------------------------
(* C5: data is the concatenation, in batch order, of the items of the
   successful batches and nothing else; an array body gives its elements in
   order, a single record gives one element. *)
C5_DataInBatchOrder ==
    (Canonical /\ Validated /\ pc # "start") =>
        /\ allResults = ExpectedData(outcomes, Len(outcomes))
        /\ (Done /\ "data" \in responses[1].body.keys) =>
              responses[1].body.data = ExpectedData(outcomes, Len(outcomes))

C5_Witness ==
    /\ Canonical /\ Validated /\ Done
    /\ Len(outcomes) = 3
    /\ ~Failure(outcomes[1]) /\ ~outcomes[1].isArray
    /\ Failure(outcomes[2])
    /\ ~Failure(outcomes[3]) /\ Len(outcomes[3].arr) = 2
    /\ Len(responses[1].body.data) = 3

-----------------------------------------------------------------------------
(* C6: errors holds one entry per failed batch, in batch order; batchIndex
   is the starting offset of the batch, a multiple of BATCH_SIZE strictly
   increasing along errors; a non-2xx answer leaves the upstream status,
   statusText and raw body, a thrown error leaves 500, "Internal Server
   Error" and the message. *)
C6_ErrorsPerFailedBatch ==
    (Canonical /\ Validated /\ pc # "start") =>
        /\ errors = ExpectedErrors(outcomes, Len(outcomes))
        /\ \A k \in 1..Len(errors) :
              /\ errors[k].batchIndex % BATCH_SIZE = 0
              /\ k > 1 => errors[k - 1].batchIndex < errors[k].batchIndex
              /\ \E c \in 1..Len(calls) :
                    /\ calls[c].offset = errors[k].batchIndex
                    /\ Failure(outcomes[c])
        /\ (Done /\ "errors" \in responses[1].body.keys) =>
              responses[1].body.errors = ExpectedErrors(outcomes, Len(outcomes))

C6_Witness ==
    /\ Canonical /\ Validated /\ Done
    /\ Len(IdentifierSet) = BATCH_SIZE + BATCH_SIZE \div 2
    /\ ~Failure(outcomes[1])
    /\ ~outcomes[2].fetchThrows /\ outcomes[2].status = 404
    /\ responses[1].status = 200
    /\ Len(responses[1].body.errors) = 1
    /\ responses[1].body.errors[1].batchIndex = BATCH_SIZE
    /\ responses[1].body.errors[1].details = "not found"

-----------------------------------------------------------------------------
(* Rejection of unusable input *)

ExpectedRejection ==
    IF Falsy(query) THEN "Missing placeIds parameter."
    ELSE IF query.kind \notin {"string", "array"} THEN "Invalid placeIds format."
    ELSE "No valid place IDs provided."

BadInput ==
    \/ Falsy(query)
    \/ query.kind \notin {"string", "array"}
    \/ \A k \in 1..Len(Pieces) : ~KeepsId(Pieces[k])

RejectedBeforeUpstream ==
    /\ (BadInput /\ pc # "start") =>
          /\ Done
          /\ calls = <<>>
          /\ Len(responses) = 1
          /\ responses[1].status = 400
          /\ responses[1].body.keys = {"error"}
          /\ responses[1].body.error = ExpectedRejection
    /\ \A k \in 1..Len(calls) :
          /\ calls[k].batch # <<>>
          /\ \A j \in 1..Len(calls[k].batch) : KeepsId(calls[k].batch[j])

(* C7: a GET request whose placeIds is absent or empty, is neither a string
   nor a sequence of strings, or has no valid identifier left after the
   filter is answered 400 {error: <message>} with no upstream call; and an
   upstream call only ever carries a non-empty batch of validated
   identifiers.  Stated of the two handlers the claim is drawn from, the
   canonical one and api/get-place-details.js; "valid" is what the filter
   of the canonical handler keeps. *)
C7_RejectsBeforeUpstream ==
    (handler \in {"canonical", "api"} /\ method = "GET") => RejectedBeforeUpstream

\* The same statement of the canonical handler alone.
CanonicalRejectsBeforeUpstream ==
    (Canonical /\ method = "GET") => RejectedBeforeUpstream

-----------------------------------------------------------------------------
(* C8: the filter keeps an element iff the whole element is a base-10
   integer (an optional sign followed only by digits), so every identifier
   sent upstream is a pure integer string. *)
C8_FilterKeepsPureIntegers ==
    (Canonical /\ method = "GET" /\ pc # "start" /\ query.kind \in {"string", "array"}) =>
        /\ validPlaceIds = SelectSeq(Pieces, IsPureInteger)
        /\ \A k \in 1..Len(calls) :
              \A j \in 1..Len(calls[k].batch) : IsPureInteger(calls[k].batch[j])

-----------------------------------------------------------------------------
(* Subsequences *)

RECURSIVE IsSubsequence(_, _)
IsSubsequence(a, b) ==
    IF a = <<>> THEN TRUE
    ELSE IF b = <<>> THEN FALSE
    ELSE IF Head(a) = Head(b) THEN IsSubsequence(Tail(a), Tail(b))
    ELSE IsSubsequence(a, Tail(b))

Count(seq, x) == Cardinality({k \in 1..Len(seq) : seq[k] = x})

(* C9: for a comma-delimited string the normalizer's output is the
   subsequence of the trimmed pieces that are numeric, in input order,
   duplicates kept, every non-numeric piece removed. *)
C9_NormalizerSubsequence ==
    (Canonical /\ method = "GET" /\ pc # "start" /\ query.kind = "string") =>
        LET trimmed == SplitTrim(query.str)
        IN  /\ IsSubsequence(validPlaceIds, trimmed)
            /\ \A k \in 1..Len(trimmed) :
                  /\ IsPureInteger(trimmed[k]) =>
                        Count(validPlaceIds, trimmed[k]) = Count(trimmed, trimmed[k])
                  /\ ~IsPureInteger(trimmed[k]) => Count(validPlaceIds, trimmed[k]) = 0

\* What the normalizer does guarantee: order and duplicates of the pieces
\* its own filter accepts.
NormalizerKeepsOrder ==
    (Canonical /\ method = "GET" /\ pc # "start" /\ query.kind = "string") =>
        LET trimmed == SplitTrim(query.str)
        IN  /\ IsSubsequence(validPlaceIds, trimmed)
            /\ \A k \in 1..Len(trimmed) :
                  KeepsId(trimmed[k]) =>
                      Count(validPlaceIds, trimmed[k]) = Count(trimmed, trimmed[k])

-----------------------------------------------------------------------------
(* Sequential dispatch *)

Sequential ==
    (Canonical /\ Validated) =>
        /\ Len(inflight) <= 1
        /\ Len(calls) = Len(outcomes) + Len(inflight)
        /\ (pc \in {"await", "body"}) <=> (Len(inflight) = 1)
        /\ inflight # <<>> => inflight[1] = calls[Len(calls)]
        /\ \A k \in 1..Len(calls) : calls[k].offset = (k - 1) * BATCH_SIZE
        /\ Len(errors) = Cardinality({k \in 1..Len(outcomes) : Failure(outcomes[k])})
        /\ Len(allResults) = Len(ExpectedData(outcomes, Len(outcomes)))
        /\ Len(responses) <= 1
        /\ responses # <<>> =>
              /\ Done
              /\ inflight = <<>>
              /\ Len(outcomes) = NumBatches(Len(IdentifierSet))

(* C10: within one request the upstream calls are strictly sequential in
   partition order: a call is issued only when every earlier call has
   completed and its result is recorded in data or errors, so at most one
   call is in flight; and, every call completing, the handler ends by
   sending exactly one response, after the last batch is recorded. *)
C10_SequentialAndTerminates ==
    /\ []Sequential
    /\ (Canonical /\ Validated) ~> (Done /\ Len(responses) = 1)

C10_Witness ==
    /\ Canonical /\ Validated
    /\ pc = "await"
    /\ Len(calls) = 3
    /\ Len(outcomes) = 2
    /\ Len(errors) = 1

=============================================================================
